---------------------------- MODULE Spec2Model ----------------------------
(***************************************************************************)
(* Model of script.py, the interactive PDF renamer ("Renombrador de PDFs   *)
(* por folio").  The program asks for a base directory, lets the operator  *)
(* pick a CSV, loads the correction rows (load_rows), builds a plan, asks  *)
(* for confirmation and then renames the files.                            *)
(*                                                                         *)
(* Text is modelled as a sequence of one-character strings, so that the    *)
(* string functions of the source (strip, lower, endswith, replace) are    *)
(* computed and not assumed.  The filesystem is a function from the paths  *)
(* of the base directory to the identity of the file stored there; paths   *)
(* are compared as pathlib compares them on a case-sensitive filesystem    *)
(* without symbolic links, and the filesystem is changed by the program    *)
(* alone (section 5 of the specification: single operator, sequential).    *)
(* A rename fails when its source is missing and may also fail for a       *)
(* reason of the environment (permission, I/O).                            *)
(***************************************************************************)
EXTENDS Integers, Sequences, FiniteSets, TLC

---------------------------------------------------------------------------
(* Bounds of the model *)

\* rows of a CSV of the renaming runs
MaxRows == 2
\* rows of a CSV of the ingestion runs
MaxCsvRows == 2
\* CSV candidates in the base directory
MaxCsvs == 1
\* renames that fail for a reason of the environment, per behaviour
MaxIoErrors == 1

---------------------------------------------------------------------------
(* Text *)

\* Python's None where a text is expected: a token that is no character
None == <<"<None>">>

s_empty == << >>
s_path == <<"p","a","t","h">>
s_folio == <<"f","o","l","i","o">>
s_correcto == <<"c","o","r","r","e","c","t","o">>
s_pdf == <<".","p","d","f">>
s_PDF == <<".","P","D","F">>
s_sp == <<" ">>
s_us == <<"_">>
s_hy == <<"-">>

UpperOf == [c \in {"a","c","d","e","f","h","i","l","o","p","r","t"} |->
              CASE c = "a" -> "A" [] c = "c" -> "C" [] c = "d" -> "D"
                [] c = "e" -> "E" [] c = "f" -> "F" [] c = "h" -> "H"
                [] c = "i" -> "I" [] c = "l" -> "L" [] c = "o" -> "O"
                [] c = "p" -> "P" [] c = "r" -> "R" [] c = "t" -> "T"]

\* str.lower() on one character
lower_char(c) ==
    IF \E l \in DOMAIN UpperOf : UpperOf[l] = c
       THEN CHOOSE l \in DOMAIN UpperOf : UpperOf[l] = c
       ELSE c

\* str.upper() on one character
upper_char(c) == IF c \in DOMAIN UpperOf THEN UpperOf[c] ELSE c

\* str.lower()
lower(s) == [i \in 1..Len(s) |-> lower_char(s[i])]

upper(s) == [i \in 1..Len(s) |-> upper_char(s[i])]

capitalize(s) == [i \in 1..Len(s) |-> IF i = 1 THEN upper_char(s[i]) ELSE s[i]]

RECURSIVE lstrip(_)
lstrip(s) == IF s # << >> /\ Head(s) = " " THEN lstrip(Tail(s)) ELSE s

RECURSIVE rstrip(_)
rstrip(s) == IF s # << >> /\ s[Len(s)] = " "
                THEN rstrip(SubSeq(s, 1, Len(s) - 1)) ELSE s

\* str.strip()
strip(s) == rstrip(lstrip(s))

\* str.endswith(suffix)
endswith(s, suffix) ==
    /\ Len(s) >= Len(suffix)
    /\ SubSeq(s, Len(s) - Len(suffix) + 1, Len(s)) = suffix

\* str.replace(old, new) for a one-character old
RECURSIVE replace(_, _, _)
replace(s, old, new) ==
    IF s = << >> THEN << >>
    ELSE (IF Head(s) = old THEN new ELSE <<Head(s)>>) \o replace(Tail(s), old, new)

Digits == <<"0", "1", "2", "3", "4", "5", "6", "7", "8", "9">>

\* str.isdigit()
isdigit(s) == s # << >> /\ \A i \in 1..Len(s) : \E d \in 1..Len(Digits) : Digits[d] = s[i]

\* int(s) of a text of digits
RECURSIVE int(_)
int(s) ==
    IF s = << >> THEN 0
    ELSE 10 * int(SubSeq(s, 1, Len(s) - 1))
         + (CHOOSE d \in 1..Len(Digits) : Digits[d] = s[Len(s)]) - 1

\* (x or "")
or_empty(x) == IF x = None THEN s_empty ELSE x

---------------------------------------------------------------------------
(* ensure_pdf *)

ensure_pdf(name) ==
    LET n == strip(or_empty(name))
    IN  IF ~ endswith(lower(n), s_pdf) THEN n \o s_pdf ELSE n

---------------------------------------------------------------------------
(* Python dict: a sequence of <<key, value>> pairs in insertion order *)

dict_has(d, k) == \E i \in 1..Len(d) : d[i][1] = k

dict_get(d, k) == d[CHOOSE i \in 1..Len(d) : d[i][1] = k][2]

\* d[k] = v: a new key goes last, a known key keeps its place
dict_set(d, k, v) ==
    IF dict_has(d, k)
       THEN [i \in 1..Len(d) |-> IF d[i][1] = k THEN <<k, v>> ELSE d[i]]
       ELSE Append(d, <<k, v>>)

---------------------------------------------------------------------------
(* load_rows.  A CSV file, as csv.DictReader hands it over: its field      *)
(* names and its data rows, each row a tuple with one value per field name *)
(* (None where the line is too short).                                     *)

s_folio_correcto == s_folio \o s_us \o s_correcto

required == <<s_path, s_folio, s_folio_correcto>>

\* the synonyms tried for folio_correcto
folio_correcto_cands ==
    << s_folio \o s_us \o s_correcto, s_folio \o s_correcto,
       s_folio \o s_hy \o s_correcto, s_folio \o s_sp \o s_correcto >>

\* a key that keeps the case of the header
norm_key_keeps_case(f) == strip(or_empty(f))

\* line 82: (f or "").strip().lower()
norm_key(f) == lower(strip(or_empty(f)))

\* { (f or "").strip().lower(): f for f in reader.fieldnames }
RECURSIVE field_map_from(_, _)
field_map_from(fieldnames, d) ==
    IF fieldnames = << >> THEN d
    ELSE field_map_from(Tail(fieldnames),
             dict_set(d, norm_key(Head(fieldnames)), Head(fieldnames)))

\* k.replace(" ", "").replace("-", "_")
alt_key(k) == replace(replace(k, " ", << >>), "-", s_us)

\* alt_map[k2] = orig for k, orig in field_map.items()
RECURSIVE alt_map_from(_, _)
alt_map_from(items, d) ==
    IF items = << >> THEN d
    ELSE alt_map_from(Tail(items), dict_set(d, alt_key(Head(items)[1]), Head(items)[2]))

\* the first candidate whose normal form is a key of alt_map, or None
RECURSIVE first_cand(_, _)
first_cand(cands, alt_map) ==
    IF cands = << >> THEN None
    ELSE IF dict_has(alt_map, alt_key(Head(cands)))
            THEN dict_get(alt_map, alt_key(Head(cands)))
            ELSE first_cand(Tail(cands), alt_map)

\* the loop that fills remapped
RECURSIVE remapped_from(_, _, _, _)
remapped_from(reqs, field_map, alt_map, d) ==
    IF reqs = << >> THEN d
    ELSE LET r == Head(reqs)
             d2 == IF dict_has(field_map, r)
                      THEN dict_set(d, r, dict_get(field_map, r))
                   ELSE IF r = s_folio_correcto
                           /\ first_cand(folio_correcto_cands, alt_map) # None
                      THEN dict_set(d, r, first_cand(folio_correcto_cands, alt_map))
                   ELSE d
         IN  remapped_from(Tail(reqs), field_map, alt_map, d2)

\* lines 82-110: the field_map the row loop uses; error stands for sys.exit(1)
resolve_columns(fieldnames) ==
    LET field_map == field_map_from(fieldnames, << >>)
        missing == SelectSeq(required, LAMBDA r : ~ dict_has(field_map, r))
        remapped == remapped_from(required, field_map,
                                  alt_map_from(field_map, << >>), << >>)
        missing2 == SelectSeq(required, LAMBDA r : ~ dict_has(remapped, r))
    IN  IF missing = << >> THEN [error |-> FALSE, field_map |-> field_map]
        ELSE IF missing2 # << >> THEN [error |-> TRUE, field_map |-> << >>]
        ELSE [error |-> FALSE, field_map |-> remapped]

\* raw[name] of the DictReader row: dict(zip(fieldnames, row)), the last wins
raw_get(fieldnames, row, name) ==
    LET S == {j \in 1..Len(fieldnames) : fieldnames[j] = name}
    IN  row[CHOOSE j \in S : \A k \in S : k <= j]

\* a completeness test that forgets folio_correcto
row_complete_two(rel_path, folio, folio_ok) == rel_path # << >> /\ folio # << >>

\* line 118: rel_path and folio and folio_ok
row_complete(rel_path, folio, folio_ok) ==
    rel_path # << >> /\ folio # << >> /\ folio_ok # << >>

\* for i, raw in enumerate(reader, 2)
RECURSIVE row_loop(_, _, _, _, _)
row_loop(fieldnames, data, field_map, i, rows) ==
    IF data = << >> THEN rows
    ELSE LET raw == Head(data)
             rel_path == strip(or_empty(raw_get(fieldnames, raw, dict_get(field_map, s_path))))
             folio == strip(or_empty(raw_get(fieldnames, raw, dict_get(field_map, s_folio))))
             folio_ok == strip(or_empty(raw_get(fieldnames, raw,
                                        dict_get(field_map, s_folio_correcto))))
         IN  IF ~ row_complete(rel_path, folio, folio_ok)
                THEN row_loop(fieldnames, Tail(data), field_map, i + 1, rows)
                ELSE row_loop(fieldnames, Tail(data), field_map, i + 1,
                         Append(rows, [rel_path |-> rel_path, folio |-> folio,
                                       folio_ok |-> folio_ok, rownum |-> i]))

load_rows(file) ==
    LET cols == resolve_columns(file.fieldnames)
    IN  IF cols.error THEN [error |-> TRUE, rows |-> << >>]
        ELSE [error |-> FALSE,
              rows |-> row_loop(file.fieldnames, file.data, cols.field_map, 2, << >>)]

---------------------------------------------------------------------------
(* Paths and the filesystem *)

\* the segments of a relative path, split at "/"
RECURSIVE split_segments(_, _, _)
split_segments(s, cur, acc) ==
    IF s = << >> THEN Append(acc, cur)
    ELSE IF Head(s) = "/" THEN split_segments(Tail(s), << >>, Append(acc, cur))
    ELSE split_segments(Tail(s), Append(cur, Head(s)), acc)

\* (base_dir / Path(rel_path)).resolve(): the folder below the base
\* directory, without empty and "." segments
resolve_folder(rel_path) ==
    SelectSeq(split_segments(rel_path, << >>, << >>),
              LAMBDA seg : seg # << >> /\ seg # <<".">>)

\* folder / name
join(folder, name) == [folder |-> folder, name |-> name]

\* what fs holds at a path where no file is
NoFile == [folder |-> << >>, name |-> << >>]

\* Path.exists()
exists(fsys, p) == p \in DOMAIN fsys /\ fsys[p] # NoFile

\* src.resolve() == dst.resolve(): the folder is resolved already and the
\* final component is no link, so the resolved paths are the paths
same_file(src, dst) == src = dst

\* an executable flag that looks at the source alone
can_move_src_only(fsys, src, dst) == exists(fsys, src)

\* line 175
can_move(fsys, src, dst) ==
    exists(fsys, src) /\ (~ exists(fsys, dst) \/ same_file(src, dst))

\* line 164
is_conflict(fsys, src, dst) ==
    exists(fsys, src) /\ exists(fsys, dst) /\ ~ same_file(src, dst)

\* a rename that reports success and moves nothing
rename_dry_run(fsys, src, dst) == fsys

\* a rename that leaves the file at the source as well
rename_keeps_source(fsys, src, dst) ==
    [p \in DOMAIN fsys |-> IF p = dst THEN fsys[src] ELSE fsys[p]]

\* os.rename of an existing source: the destination takes the file
\* (POSIX replaces a file that is there), the source path is empty
rename(fsys, src, dst) ==
    [p \in DOMAIN fsys |-> IF p = dst THEN fsys[src]
                           ELSE IF p = src THEN NoFile
                           ELSE fsys[p]]

\* the loop without the test of line 209
exec_tag_no_dst_check(fsys, item, io_error) ==
    IF ~ item.can_move THEN "OMITIDO"
    ELSE IF same_file(item.src, item.dst) THEN "YA OK"
    ELSE IF ~ exists(fsys, item.src) \/ io_error THEN "ERROR"
    ELSE "RENOMBRADO"

\* the loop without the test of line 204
exec_tag_no_same_check(fsys, item, io_error) ==
    IF ~ item.can_move THEN "OMITIDO"
    ELSE IF exists(fsys, item.dst) THEN "OMITIDO destino existe"
    ELSE IF ~ exists(fsys, item.src) \/ io_error THEN "ERROR"
    ELSE "RENOMBRADO"

\* the loop with a failed rename taken for a rename
exec_tag_error_as_moved(fsys, item, io_error) ==
    IF ~ item.can_move THEN "OMITIDO"
    ELSE IF same_file(item.src, item.dst) THEN "YA OK"
    ELSE IF exists(fsys, item.dst) THEN "OMITIDO destino existe"
    ELSE "RENOMBRADO"

\* lines 197-219: what the loop does with one plan entry
exec_tag(fsys, item, io_error) ==
    IF ~ item.can_move THEN "OMITIDO"
    ELSE IF same_file(item.src, item.dst) THEN "YA OK"
    ELSE IF exists(fsys, item.dst) THEN "OMITIDO destino existe"
    ELSE IF ~ exists(fsys, item.src) \/ io_error THEN "ERROR"
    ELSE "RENOMBRADO"

\* a confirmation that any answer gives
applies_always(go) == TRUE

\* line 189
applies(go) == go = <<"1">>

---------------------------------------------------------------------------
(* Inputs of the renaming runs *)

id_a == <<"a">>
id_b == <<"b">>

\* the folio and folio_correcto values of the rows: a and a.pdf name the
\* same file, b.pdf and b.PDF are two files
Folios == { id_a, id_b, id_b \o s_PDF }

FoliosOk == { id_a \o s_pdf, id_b, id_b \o s_PDF }

RelPaths == { <<"d", "/", "e">> }

FsPaths ==
    { join(resolve_folder(rp), ensure_pdf(id)) : rp \in RelPaths, id \in Folios \cup FoliosOk }

\* the data rows of a CSV: every sequence of at most n rows over the values
DataRows(paths, folios, folios_ok, n) ==
    UNION { [1..k -> {<<p, f, g>> : p \in paths, f \in folios, g \in folios_ok}] : k \in 0..n }

\* a CSV without the folio column
BadHeader == [fieldnames |-> <<s_path, s_folio_correcto>>, data |-> << >>]

PlanCsvs ==
    { [fieldnames |-> required, data |-> d] : d \in DataRows(RelPaths, Folios, FoliosOk, MaxRows) }
    \cup { BadHeader }

\* what the operator may type at a prompt; Interrupt is Ctrl-C
Interrupt == <<"^C">>

Answers == { <<"1">>, <<" ", "1">>, <<"2">>, Interrupt }

Choices == { <<"x">>, Interrupt } \cup { <<Digits[n + 1], " ">> : n \in 0..(MaxCsvs + 1) }

---------------------------------------------------------------------------
(* The program *)

VARIABLES
    pc,          \* where main is
    exit_code,   \* the status of sys.exit, -1 while running
    fs,          \* the PDF files of the base directory
    n_csvs,      \* how many *.csv the base directory holds
    csv_path,    \* the index pick_csv returned
    csv,         \* the content of the chosen CSV
    rows, plan, n_exists, n_missing, n_conflicts,
    go, moved, skipped,
    idx,         \* the entry the execution loop is at
    log,         \* the lines the execution loop printed: [rownum, tag]
    io_errors,   \* renames that failed for a reason of the environment
    fs0,         \* fs when the program started
    run,         \* 1, or 2 when the program is run again on the same CSV
    fs1,         \* fs when the second run started
    io_errors1   \* io_errors when the second run started

vars == << pc, exit_code, fs, n_csvs, csv_path, csv, rows, plan, n_exists,
           n_missing, n_conflicts, go, moved, skipped, idx, log, io_errors,
           fs0, run, fs1, io_errors1 >>

NoCsv == [fieldnames |-> << >>, data |-> << >>]

InitWith(paths) ==
    /\ pc = "start"
    /\ exit_code = -1
    /\ \E S \in SUBSET paths :
          fs = [p \in FsPaths |-> IF p \in S THEN p ELSE NoFile]
    /\ n_csvs \in 0..MaxCsvs
    /\ csv_path = 0
    /\ csv = NoCsv
    /\ rows = << >>
    /\ plan = << >>
    /\ n_exists = 0 /\ n_missing = 0 /\ n_conflicts = 0
    /\ go = << >>
    /\ moved = 0 /\ skipped = 0
    /\ idx = 0
    /\ log = << >>
    /\ io_errors = 0
    /\ fs0 = fs
    /\ run = 1
    /\ fs1 = fs
    /\ io_errors1 = 0

Init == InitWith(FsPaths)

\* sys.exit(code)
Exit(code) == pc' = "exit" /\ exit_code' = code

\* lines 132-138: the base directory is asked for and checked
Start ==
    /\ pc = "start"
    /\ \E base_in \in {"dir", "nodir", "interrupt"} :
          IF base_in = "dir" THEN pc' = "pick" /\ exit_code' = exit_code
          ELSE Exit(1)
    /\ UNCHANGED << fs, n_csvs, csv_path, csv, rows, plan, n_exists, n_missing,
                    n_conflicts, go, moved, skipped, idx, log, io_errors, fs0,
                    run, fs1, io_errors1 >>

\* lines 37-55 and 140: pick_csv
PickCsv ==
    /\ pc = "pick"
    /\ IF n_csvs = 0
          THEN Exit(1) /\ csv_path' = csv_path
          ELSE \E choice \in Choices :
                  IF choice = Interrupt
                     THEN Exit(1) /\ csv_path' = csv_path
                  ELSE IF ~ isdigit(strip(choice))
                          \/ ~ (1 <= int(strip(choice)) /\ int(strip(choice)) <= n_csvs)
                     THEN UNCHANGED << pc, exit_code, csv_path >>
                  ELSE /\ run = 2 => int(strip(choice)) = csv_path
                       /\ csv_path' = int(strip(choice))
                       /\ pc' = "load"
                       /\ exit_code' = exit_code
    /\ UNCHANGED << fs, n_csvs, csv, rows, plan, n_exists, n_missing,
                    n_conflicts, go, moved, skipped, idx, log, io_errors, fs0,
                    run, fs1, io_errors1 >>

\* lines 143-151: load_rows on a CSV of the set, then the plan is set up
LoadRowsFrom(files) ==
    /\ pc = "load"
    /\ \E file \in (IF run = 1 THEN files ELSE {csv}) :
          LET got == load_rows(file)
          IN  /\ csv' = file
              /\ rows' = got.rows
              /\ IF got.error THEN Exit(1)
                 ELSE IF got.rows = << >> THEN Exit(0)
                 ELSE pc' = "plan" /\ exit_code' = exit_code
    /\ plan' = << >>
    /\ n_exists' = 0 /\ n_missing' = 0 /\ n_conflicts' = 0
    /\ UNCHANGED << fs, n_csvs, csv_path, go, moved, skipped, idx, log,
                    io_errors, fs0, run, fs1, io_errors1 >>

LoadRows == LoadRowsFrom(PlanCsvs)

\* lines 153-176: one turn of the planning loop
PlanRow ==
    /\ pc = "plan"
    /\ LET r == rows[Len(plan) + 1]
           folder == resolve_folder(r.rel_path)
           src == join(folder, ensure_pdf(r.folio))
           dst == join(folder, ensure_pdf(r.folio_ok))
       IN  /\ n_exists' = IF exists(fs, src) THEN n_exists + 1 ELSE n_exists
           /\ n_conflicts' = IF is_conflict(fs, src, dst)
                                THEN n_conflicts + 1 ELSE n_conflicts
           /\ n_missing' = IF exists(fs, src) THEN n_missing ELSE n_missing + 1
           /\ plan' = Append(plan, [rownum |-> r.rownum, src |-> src, dst |-> dst,
                                    can_move |-> can_move(fs, src, dst)])
    /\ pc' = IF Len(plan) + 1 = Len(rows) THEN "confirm" ELSE "plan"
    /\ UNCHANGED << exit_code, fs, n_csvs, csv_path, csv, rows, go, moved,
                    skipped, idx, log, io_errors, fs0, run, fs1, io_errors1 >>

\* lines 188-194: the confirmation
Confirm ==
    /\ pc = "confirm"
    /\ \E answer \in Answers :
          IF answer = Interrupt
             THEN Exit(1) /\ UNCHANGED << go, moved, skipped, idx >>
          ELSE /\ go' = strip(answer)
               /\ IF ~ applies(go')
                     THEN Exit(0) /\ UNCHANGED << moved, skipped, idx >>
                     ELSE /\ pc' = "exec" /\ exit_code' = exit_code
                          /\ moved' = 0 /\ skipped' = 0 /\ idx' = 1
    /\ log' = << >>
    /\ UNCHANGED << fs, n_csvs, csv_path, csv, rows, plan, n_exists, n_missing,
                    n_conflicts, io_errors, fs0, run, fs1, io_errors1 >>

\* lines 195-219: one turn of the execution loop
ExecItem ==
    /\ pc = "exec"
    /\ \E io_error \in BOOLEAN :
          LET item == plan[idx]
              tag == exec_tag(fs, item, io_error)
          IN  /\ io_error => (io_errors < MaxIoErrors
                              /\ exec_tag(fs, item, FALSE) = "RENOMBRADO")
              /\ io_errors' = IF io_error THEN io_errors + 1 ELSE io_errors
              /\ fs' = IF tag = "RENOMBRADO" THEN rename(fs, item.src, item.dst) ELSE fs
              /\ moved' = IF tag = "RENOMBRADO" THEN moved + 1 ELSE moved
              /\ skipped' = IF tag \in {"OMITIDO", "OMITIDO destino existe", "ERROR"}
                               THEN skipped + 1 ELSE skipped
              /\ log' = Append(log, [rownum |-> item.rownum, tag |-> tag])
    /\ idx' = idx + 1
    /\ pc' = IF idx = Len(plan) THEN "done" ELSE "exec"
    /\ UNCHANGED << exit_code, n_csvs, csv_path, csv, rows, plan, n_exists,
                    n_missing, n_conflicts, go, fs0, run, fs1, io_errors1 >>

\* the program is started again on the same base directory and CSV
Rerun ==
    /\ pc = "done" /\ run = 1
    /\ run' = 2
    /\ fs1' = fs
    /\ io_errors1' = io_errors
    /\ pc' = "start"
    /\ UNCHANGED << exit_code, fs, n_csvs, csv_path, csv, rows, plan, n_exists,
                    n_missing, n_conflicts, go, moved, skipped, idx, log,
                    io_errors, fs0 >>

Next == Start \/ PickCsv \/ LoadRows \/ PlanRow \/ Confirm \/ ExecItem

Spec == Init /\ [][Next]_vars

NextTwice == Next \/ Rerun

SpecTwice == Init /\ [][NextTwice]_vars

\* the interpreter keeps running the loop: a turn that can be taken is taken
SpecFair == Spec /\ WF_vars(ExecItem)

---------------------------------------------------------------------------
(* Properties of the renaming runs *)

\* the files a filesystem holds, and the paths that hold one
FilesOf(fsys) == { fsys[p] : p \in DOMAIN fsys } \ { NoFile }

Occupied(fsys) == { p \in DOMAIN fsys : fsys[p] # NoFile }

\* the paths the planning loop derives from the k-th row
SrcOf(k) == join(resolve_folder(rows[k].rel_path), ensure_pdf(rows[k].folio))

DstOf(k) == join(resolve_folder(rows[k].rel_path), ensure_pdf(rows[k].folio_ok))

Planned == pc \in {"confirm", "exec", "done"} \/ (pc = "exit" /\ Len(plan) > 0)

\* C1: every step that changes the filesystem moves one file to a path that
\* holds no file at that moment; the files on disk stay those the run
\* started with, each at exactly one path, and their number stays the same.
C1_NoOverwrite ==
    [][ /\ fs' # fs =>
             \E s, d \in FsPaths :
                /\ fs[s] # NoFile /\ fs[d] = NoFile
                /\ fs' = [fs EXCEPT ![d] = fs[s], ![s] = NoFile]
        /\ FilesOf(fs') = FilesOf(fs0)
        /\ Cardinality(Occupied(fs')) = Cardinality(Occupied(fs0)) ]_vars

\* two executable entries name the same destination; the first was renamed
\* and the second was left alone
C1_Witness ==
    /\ pc = "done" /\ Len(plan) = 2
    /\ plan[1].dst = plan[2].dst /\ plan[1].src # plan[2].src
    /\ plan[1].can_move /\ plan[2].can_move
    /\ log[1].tag = "RENOMBRADO" /\ log[2].tag = "OMITIDO destino existe"

\* C2: the executable flag of every plan entry is true exactly when the
\* source of its row exists when the program starts planning and the
\* destination does not exist or is the source; the other rows play no part.
C2_CanMoveIff ==
    run = 1 =>
      \A k \in 1..Len(plan) :
         /\ plan[k].src = SrcOf(k) /\ plan[k].dst = DstOf(k)
         /\ plan[k].can_move <=>
               (fs0[SrcOf(k)] # NoFile
                /\ (fs0[DstOf(k)] = NoFile \/ SrcOf(k) = DstOf(k)))

\* a plan with an executable entry, a conflict and nothing else
C2_Witness ==
    /\ pc = "confirm" /\ Len(plan) = 2
    /\ plan[1].can_move /\ plan[1].src # plan[1].dst
    /\ ~ plan[2].can_move /\ exists(fs0, plan[2].src) /\ exists(fs0, plan[2].dst)

\* the k-th row has its source and no distinct destination when planned
Movable0(k) ==
    fs0[SrcOf(k)] # NoFile /\ (fs0[DstOf(k)] = NoFile \/ SrcOf(k) = DstOf(k))

\* C3 as claimed: every row whose source exists and that has no distinct
\* destination is marked executable, and after the execution its destination
\* exists and its source does not.
C3_Original ==
    (pc = "done" /\ run = 1) =>
       \A k \in 1..Len(plan) :
          Movable0(k) => /\ plan[k].can_move
                         /\ exists(fs, plan[k].dst)
                         /\ ~ exists(fs, plan[k].src)

\* no earlier entry of the plan has the source or the destination of entry k
NoEarlierClash(k) ==
    \A j \in 1..(k - 1) : plan[j].src # plan[k].src /\ plan[j].dst # plan[k].dst

\* C3 amended: every such row is marked executable; if moreover its source
\* and destination are different paths, no earlier row of the plan has the
\* same source or the same destination, and its rename raises no filesystem
\* error, then after the execution the destination holds the file that was
\* at the source and the source does not exist.
C3_Amended ==
    (pc = "done" /\ run = 1) =>
       \A k \in 1..Len(plan) :
          Movable0(k) =>
             /\ plan[k].can_move
             /\ (plan[k].src # plan[k].dst /\ NoEarlierClash(k)
                 /\ log[k].tag # "ERROR")
                => /\ fs[plan[k].dst] = fs0[plan[k].src]
                   /\ ~ exists(fs, plan[k].src)

\* the second row of a plan was renamed after a first row that was left alone
C3_Witness ==
    /\ pc = "done" /\ Len(plan) = 2
    /\ Movable0(1) /\ log[1].tag = "YA OK"
    /\ Movable0(2) /\ plan[2].src # plan[2].dst /\ NoEarlierClash(2)
    /\ log[2].tag = "RENOMBRADO"
    /\ fs[plan[2].dst] = fs0[plan[2].src] /\ ~ exists(fs, plan[2].src)

\* the k-th entry has a destination that is another file than its source
Conflict0(k) == fs0[plan[k].dst] # NoFile /\ plan[k].src # plan[k].dst

\* C5 as claimed: a row whose destination exists and is another file than
\* its source is not executable, its turn of the loop adds one to skipped
\* and leaves the filesystem alone, and the destination path holds the same
\* file through the whole execution.
C5_Original ==
    [][ run = 1 =>
        /\ (pc = "exec" /\ Conflict0(idx))
              => (skipped' = skipped + 1 /\ moved' = moved /\ fs' = fs)
        /\ Planned' =>
              \A k \in 1..Len(plan') :
                 Conflict0(k)' => /\ ~ plan'[k].can_move
                                  /\ fs'[plan'[k].dst] = fs0[plan'[k].dst] ]_vars

\* C5 amended: such a row is not executable, its turn of the loop adds one
\* to skipped and leaves the filesystem alone, and the file that was at the
\* destination path is never overwritten or lost: it stays on disk, and it
\* stays at the destination path unless that path is the source of a row of
\* the plan, whose rename may move it.
C5_Amended ==
    [][ run = 1 =>
        /\ (pc = "exec" /\ Conflict0(idx))
              => (skipped' = skipped + 1 /\ moved' = moved /\ fs' = fs)
        /\ Planned' =>
              \A k \in 1..Len(plan') :
                 Conflict0(k)' =>
                    /\ ~ plan'[k].can_move
                    /\ fs0[plan'[k].dst] \in FilesOf(fs')
                    /\ (\A j \in 1..Len(plan') : plan'[j].src # plan'[k].dst)
                          => fs'[plan'[k].dst] = fs0[plan'[k].dst] ]_vars

\* a conflicting entry was skipped in a run that renamed another entry
C5_Witness ==
    /\ pc = "done" /\ Len(plan) = 2 /\ moved = 1 /\ skipped = 1
    /\ \E k \in 1..2 : Conflict0(k) /\ exists(fs0, plan[k].src)
                       /\ log[k].tag = "OMITIDO"

\* the rename of the entry the loop is at fails in this step
RenameFails ==
    /\ plan[idx].can_move /\ plan[idx].src # plan[idx].dst
    /\ ~ exists(fs, plan[idx].dst)
    /\ (~ exists(fs, plan[idx].src) \/ io_errors' # io_errors)

\* C6: every turn of the execution loop handles the next entry of the plan
\* and goes on to the one after it, or to the totals after the last; a turn
\* whose rename fails adds one to skipped, none to moved, and leaves the
\* filesystem as it was.  At the totals every entry has been handled once,
\* in the order of the plan, and the loop always reaches the totals.
C6_ErrorsAreSkipped ==
    /\ (pc = "exec") ~> (pc = "done")
    /\ [][ /\ pc = "exec" =>
                /\ idx' = idx + 1
                /\ log' = Append(log, [rownum |-> plan[idx].rownum, tag |-> log'[idx].tag])
                /\ pc' = IF idx = Len(plan) THEN "done" ELSE "exec"
                /\ RenameFails => /\ log'[idx].tag = "ERROR"
                                  /\ skipped' = skipped + 1 /\ moved' = moved
                                  /\ fs' = fs
           /\ pc' = "done" =>
                /\ Len(log') = Len(plan')
                /\ \A k \in 1..Len(plan') : log'[k].rownum = plan'[k].rownum
                /\ moved' + skipped'
                     + Cardinality({k \in 1..Len(log') : log'[k].tag = "YA OK"})
                   = Len(plan') ]_vars

\* the first entry moved the source of the second away; the second failed
\* and the loop reached the totals
C6_Witness ==
    /\ pc = "done" /\ Len(plan) = 2
    /\ plan[1].src = plan[2].src /\ plan[1].dst # plan[2].dst
    /\ log[1].tag = "RENOMBRADO" /\ log[2].tag = "ERROR"
    /\ moved = 1 /\ skipped = 1 /\ io_errors = 0

\* C7: an entry whose source and destination are the same file is no
\* conflict when planned, is executable when the file exists, and its turn
\* of the execution loop changes neither the filesystem nor moved nor skipped.
C7_SameFileIsNoOp ==
    [][ /\ (pc = "plan" /\ SrcOf(Len(plan) + 1) = DstOf(Len(plan) + 1))
              => /\ n_conflicts' = n_conflicts
                 /\ plan'[Len(plan')].can_move = exists(fs, SrcOf(Len(plan) + 1))
        /\ (pc = "exec" /\ plan[idx].can_move /\ plan[idx].src = plan[idx].dst)
              => (fs' = fs /\ moved' = moved /\ skipped' = skipped
                  /\ log'[idx].tag = "YA OK") ]_vars

\* folio a and folio_correcto a.pdf name the same file, which was left alone
C7_Witness ==
    /\ pc = "done" /\ Len(plan) = 1
    /\ rows[1].folio = id_a /\ rows[1].folio_ok = id_a \o s_pdf
    /\ plan[1].can_move /\ n_conflicts = 0
    /\ log[1].tag = "YA OK" /\ moved = 0 /\ skipped = 0 /\ fs = fs0

\* C10: the filesystem changes only in the execution loop, after the whole
\* plan was computed and the answer "1" was read; before that, and at every
\* exit of the program, the filesystem is the one the program started with.
C10_ConfirmationGate ==
    [][ run = 1 =>
        /\ fs' # fs => (pc = "exec" /\ go = <<"1">> /\ Len(plan) = Len(rows)
                        /\ Len(rows) > 0)
        /\ pc' \notin {"exec", "done"} => fs' = fs0 ]_vars

\* the operator declined a plan that had a rename to make
C10_Witness ==
    /\ pc = "exit" /\ exit_code = 0 /\ go = <<"2">>
    /\ \E k \in 1..Len(plan) : plan[k].can_move /\ plan[k].src # plan[k].dst
    /\ fs = fs0

---------------------------------------------------------------------------
(* Properties of two runs in a row *)

\* C4 as claimed: a second run on the same CSV renames nothing and leaves
\* the filesystem as the first run left it.
C4_Original ==
    (run = 2 /\ pc = "done") => (moved = 0 /\ fs = fs1)

\* a row whose rename would go to the source of another row's rename
Chained ==
    \E i, j \in 1..Len(plan) :
       /\ i # j
       /\ plan[i].src # plan[i].dst /\ plan[j].src # plan[j].dst
       /\ plan[i].dst = plan[j].src

\* C4 amended: a second run on the same CSV renames nothing and leaves the
\* filesystem as the first run left it, provided no row's destination path
\* is the source path of another row (rows whose source and destination are
\* the same file apart) and no rename of the first run failed with an error
\* of the environment.
C4_Amended ==
    (run = 2 /\ pc = "done" /\ ~ Chained /\ io_errors1 = 0)
       => (moved = 0 /\ fs = fs1)

\* the first run renamed a file and the second run skipped both entries
C4_Witness ==
    /\ run = 2 /\ pc = "done" /\ ~ Chained /\ io_errors1 = 0
    /\ Len(plan) = 2 /\ fs1 # fs0
    /\ moved = 0 /\ skipped = 2 /\ fs = fs1

---------------------------------------------------------------------------
(* The ingestion runs: the program up to the end of load_rows, on CSVs with *)
(* variants of the header names and with incomplete rows                    *)

\* the ways a header joins "folio" and "correcto"
Separators == { s_us, s_sp, s_hy, << >>, <<" ", "-", " ">> }

PathVariants == { s_path, capitalize(s_path), s_sp \o upper(s_path) \o s_sp }

FolioVariants == { s_folio, capitalize(s_folio), upper(s_folio) \o s_sp }

FolioCorrectoVariants ==
    UNION { { s_folio \o sep \o s_correcto,
              capitalize(s_folio) \o sep \o capitalize(s_correcto),
              upper(s_folio) \o sep \o upper(s_correcto) } : sep \in Separators }

\* headers whose columns are, in this order, variants of the three names
VariantHeaders ==
    { <<p, f, c>> : p \in PathVariants, f \in FolioVariants,
                    c \in FolioCorrectoVariants }

\* the rows csv hands over for a line of three, two or one values
LinesOver(paths, folios, folios_ok) ==
    { <<p, f, g>> : p \in paths, f \in folios, g \in folios_ok }
    \cup { <<p, f, None>> : p \in paths, f \in folios }
    \cup { <<p, None, None>> : p \in paths \ { << >> } }

SeqsUpTo(S, n) == UNION { [1..k -> S] : k \in 0..n }

\* every header variant, on rows of plain and empty values
HeaderCsvs ==
    { [fieldnames |-> h, data |-> d] :
         h \in VariantHeaders,
         d \in SeqsUpTo({ <<id_b, id_a, g>> : g \in {id_b, << >>} }, MaxCsvRows) }

\* the canonical header and one variant, on rows of padded, empty and
\* missing values
RowCsvs ==
    { [fieldnames |-> h, data |-> d] :
         h \in { required,
                 << capitalize(s_path), capitalize(s_folio),
                    capitalize(s_folio) \o s_sp \o capitalize(s_correcto) >> },
         d \in SeqsUpTo(LinesOver({ << >>, id_b },
                                   { << >>, <<" ", "a", " ">>, id_b },
                                   { << >>, <<" ", "a", " ">> }), MaxCsvRows) }

\* headers that lack a required column
BadCsvs ==
    { BadHeader,
      [fieldnames |-> <<s_path, s_folio, s_correcto>>,
       data |-> << <<id_b, id_b, id_b>> >>],
      [fieldnames |-> <<s_path, s_folio, s_folio \o <<"_", "_">> \o s_correcto>>,
       data |-> << <<id_b, id_b, id_b>> >>] }

IngestCsvs == HeaderCsvs \cup RowCsvs \cup BadCsvs

InitIngest == InitWith({})

LoadRowsIngest == LoadRowsFrom(IngestCsvs)

NextIngest == Start \/ PickCsv \/ LoadRowsIngest

SpecIngest == InitIngest /\ [][NextIngest]_vars

\* the trimmed value of column c of the k-th data row of the loaded CSV
ValueAt(k, c) == strip(or_empty(csv.data[k][c]))

\* the data rows of the loaded CSV with three non-empty values
CompleteRows == { k \in 1..Len(csv.data) : \A c \in 1..3 : ValueAt(k, c) # << >> }

C9_HeaderTolerance ==
    csv.fieldnames \in VariantHeaders =>
       /\ ~ (pc = "exit" /\ exit_code = 1)
       /\ ~ resolve_columns(csv.fieldnames).error
       /\ \A c \in 1..3 :
             dict_get(resolve_columns(csv.fieldnames).field_map, required[c])
                = csv.fieldnames[c]
       /\ rows = load_rows([fieldnames |-> required, data |-> csv.data]).rows

\* the header "Path", "Folio", "Folio Correcto" was ingested into a row
C9_Witness ==
    /\ csv.fieldnames = << capitalize(s_path), capitalize(s_folio),
                           capitalize(s_folio) \o s_sp \o capitalize(s_correcto) >>
    /\ Len(rows) = 2 /\ rows[2].rownum = 3 /\ pc = "plan"

====
